---- MODULE Spec2Model ----
(***************************************************************************)
(* Grimmeroo (src/grimmeroo.py): a collection of crafting blueprints keyed *)
(* by name, the loader step that builds one blueprint from a wiki page,    *)
(* the list-expansion resolver find_materials, the keyword search          *)
(* find_keyword and the packing function pack_list.                        *)
(*                                                                         *)
(* Strings that the code inspects character by character (blueprint names, *)
(* keywords, the text in front of an ingredient's "(qty)") are sequences   *)
(* of one-character strings.  A Python dict whose order the code relies on *)
(* (Blueprint.materials) is a sequence of <<key, value>> pairs with        *)
(* distinct keys; self.blueprints, whose order only decides the order of   *)
(* the keys of a returned dict, is a function on its key set.              *)
(***************************************************************************)
EXTENDS Integers, Sequences, FiniteSets, TLC

(***************************************************************************)
(* Bounds of the model                                                     *)
(***************************************************************************)
\* The scan of find_materials is followed until its working list holds more
\* than MaxLen entries (a diverging scan grows the list for ever).
MaxLen == 24
\* pack_list is applied to all lists of at most MaxListLen names.
MaxListLen == 3

(***************************************************************************)
(* Characters, names, keywords                                             *)
(***************************************************************************)
Chars == {"a", "A", "b", "B"}

\* the last operation called, where it stands, and what it gave back
VARIABLES op, pc, ret
\* Blueprints.blueprints, and whether the last add_blueprint printed its warning
VARIABLES blueprints, warned
\* history: the blueprint most recently passed to add_blueprint under each name
VARIABLES added
\* the arguments of find_materials and find_keyword
VARIABLES item_name, keyword
\* the locals of find_materials; idx is the 1-based position of the entry the
\* loop looks at next, to_remove holds 1-based positions
VARIABLES result, idx, to_remove
\* history: for every entry of result, the items whose expansion produced it
VARIABLES chain
\* a list of names at hand for pack_list
VARIABLES a_list

vars == <<op, pc, ret, blueprints, warned, added, item_name, keyword,
          result, idx, to_remove, chain, a_list>>

\* str.lower() on one character
LowerChar(c) == CASE c = "A" -> "a" [] c = "B" -> "b" [] OTHER -> c

\* str.lower()
Lower(s) == [i \in 1..Len(s) |-> LowerChar(s[i])]

\* Python's  sub in s  for strings: sub occurs in s as a contiguous slice
StrIn(sub, s) ==
    \E off \in 0..(Len(s) - Len(sub)) : SubSeq(s, off + 1, off + Len(sub)) = sub

Ab == <<"A", "b">>
aB == <<"a", "B">>
ba == <<"b", "a">>
B1 == <<"B">>

\* The item and material names of the model: one namespace, as in the code.
Names == {Ab, aB, ba, B1}

SeqsUpTo(S, n) == UNION {[1..k -> S] : k \in 0..n}

LongestName == CHOOSE n \in {Len(k) : k \in Names} : \A k \in Names : Len(k) <= n

\* The keywords: every text no longer than the longest name, and one longer
\* text (a keyword longer than every name occurs in none).
Keywords ==
    SeqsUpTo(Chars, LongestName) \cup {[i \in 1..(LongestName + 1) |-> "a"]}

(***************************************************************************)
(* Blueprint, and the dict operations the code uses on materials           *)
(***************************************************************************)
\* Blueprint.__init__
NewBlueprint == [name |-> <<>>, type |-> "", materials |-> <<>>]

DictKeys(d) == {d[i][1] : i \in 1..Len(d)}

\* d[k] = v on an insertion-ordered dict: an existing key keeps its place
DictSet(d, k, v) ==
    IF k \in DictKeys(d)
    THEN [i \in 1..Len(d) |-> IF d[i][1] = k THEN <<k, v>> ELSE d[i]]
    ELSE Append(d, <<k, v>>)

\* [ mat ] * qty
Repeat(x, n) == [i \in 1..n |-> x]

RECURSIVE Flatten(_)
Flatten(ls) == IF ls = <<>> THEN <<>> ELSE Head(ls) \o Flatten(Tail(ls))

\* materials_list with the quantities dropped: every ingredient once
materials_list_once(bp) == [i \in 1..Len(bp.materials) |-> bp.materials[i][1]]

\* Blueprint.materials_list: a new list, every ingredient repeated qty times
materials_list(bp) ==
    LET lists == [i \in 1..Len(bp.materials) |->
                      Repeat(bp.materials[i][1], bp.materials[i][2])]
    IN  Flatten(lists)

(***************************************************************************)
(* The loader: one wiki page to one Blueprint                              *)
(***************************************************************************)
\* str.replace(old, "") on a text held as a sequence of tokens
Remove(text, old) == SelectSeq(text, LAMBDA t : t # old)

DigitVal(c) == CASE c = "0" -> 0 [] c = "1" -> 1 [] c = "2" -> 2 [] c = "3" -> 3

\* int() of a string of decimal digits
RECURSIVE ParseInt(_)
ParseInt(s) ==
    IF s = <<>> THEN 0
    ELSE 10 * ParseInt(SubSeq(s, 1, Len(s) - 1)) + DigitVal(s[Len(s)])

\* A table cell of a page: whether its text is empty, whether its lowered
\* text contains "crafts", and what re.findall(REGEX_INGREDIENT, text)
\* gives, a list of <<text before "(", digits>>.
EmptyCell == [empty |-> TRUE, crafts |-> FALSE, found |-> <<>>]
OtherCell == [empty |-> FALSE, crafts |-> FALSE, found |-> <<>>]
Ingr(n, digits) ==
    [empty |-> FALSE, crafts |-> FALSE, found |-> << <<n \o <<" ">>, digits>> >>]
Crafts(n, digits) ==
    [empty |-> FALSE, crafts |-> TRUE, found |-> << <<n \o <<" ">>, digits>> >>]

\* The ingredient tables the wiki pages of the model carry.
Recipes ==
    { << Ingr(aB, <<"2">>), Ingr(B1, <<"1">>) >>,
      << Ingr(ba, <<"1">>), EmptyCell, Ingr(B1, <<"0", "2">>) >>,
      << OtherCell, Ingr(B1, <<"3">>), Crafts(Ab, <<"1">>), Ingr(Ab, <<"1">>) >>,
      << Ingr(Ab, <<"1">>), Ingr(ba, <<"1">>), Ingr(Ab, <<"2">>) >>,
      << Ingr(ba, <<"2">>) >> }

\* The pages: any name under any of the title forms, with any of the tables.
Titles(n) == { <<"Blueprint: ">> \o n, <<"Blueprint: ", "Relic - ">> \o n }

Pages == UNION { [h1 : Titles(n), cells : Recipes] : n \in Names }

\* the loop of create_blueprint over the non-empty cells
RECURSIVE IngredientLoop(_, _)
IngredientLoop(ingredients, materials) ==
    IF ingredients = <<>> THEN materials
    ELSE LET ingredient == Head(ingredients)
             current_ingredient == ingredient.found
         IN  IF ingredient.crafts THEN materials
             ELSE IngredientLoop(
                      Tail(ingredients),
                      IF Len(current_ingredient) > 0
                      THEN DictSet(materials,
                                   SubSeq(current_ingredient[1][1], 1,
                                          Len(current_ingredient[1][1]) - 1),
                                   ParseInt(current_ingredient[1][2]))
                      ELSE materials)

None == "None"

\* Blueprints.create_blueprint on the page a link leads to
create_blueprint(page, item_type) ==
    LET ingredients == SelectSeq(page.cells, LAMBDA i : ~i.empty)
    IN  [name      |-> Remove(Remove(page.h1, "Blueprint: "), "Relic - "),
         type      |-> IF item_type # None THEN item_type ELSE NewBlueprint.type,
         materials |-> IngredientLoop(ingredients, NewBlueprint.materials)]

(***************************************************************************)
(* The collection                                                          *)
(***************************************************************************)
\* d[k] = v on self.blueprints
Store(d, k, v) == [x \in DOMAIN d \cup {k} |-> IF x = k THEN v ELSE d[x]]

NoBlueprints == [x \in {} |-> NewBlueprint]

NoRet == [kind |-> "none"]

\* the value of an argument or a local that no call holds
NoArg == <<>>

\* add_blueprint that keeps the blueprint already stored under the name
add_blueprint_keep(blueprint) ==
    /\ pc = "idle"
    /\ op' = "add_blueprint"
    /\ warned' = (blueprint.name \in DOMAIN blueprints)
    /\ blueprints' = IF blueprint.name \in DOMAIN blueprints THEN blueprints
                     ELSE Store(blueprints, blueprint.name, blueprint)
    /\ added' = [n \in DOMAIN added \cup {blueprint.name} |->
                     IF n = blueprint.name THEN blueprint ELSE added[n]]
    /\ ret' = NoRet
    /\ item_name' = NoArg /\ keyword' = NoArg /\ a_list' = NoArg
    /\ UNCHANGED <<pc, result, idx, to_remove, chain>>

\* Blueprints.add_blueprint
add_blueprint(blueprint) ==
    /\ pc = "idle"
    /\ op' = "add_blueprint"
    /\ warned' = (blueprint.name \in DOMAIN blueprints)
    /\ blueprints' = Store(blueprints, blueprint.name, blueprint)
    /\ added' = [n \in DOMAIN added \cup {blueprint.name} |->
                     IF n = blueprint.name THEN blueprint ELSE added[n]]
    /\ ret' = NoRet
    /\ item_name' = NoArg /\ keyword' = NoArg /\ a_list' = NoArg
    /\ UNCHANGED <<pc, result, idx, to_remove, chain>>

\* read_all_blueprints, one link: add_blueprint(create_blueprint(link))
AddBlueprint == \E page \in Pages : add_blueprint(create_blueprint(page, None))

\* Blueprints.size
Size ==
    /\ pc = "idle"
    /\ op' = "size"
    /\ ret' = [kind |-> "int", val |-> Cardinality(DOMAIN blueprints)]
    /\ item_name' = NoArg /\ keyword' = NoArg /\ a_list' = NoArg
    /\ UNCHANGED <<pc, blueprints, warned, added, result, idx, to_remove, chain>>

(***************************************************************************)
(* find_materials.  The for loop over enumerate(result) looks at the list  *)
(* as it is when each position is reached, so entries appended by extend   *)
(* are visited too; a scan is the record of the loop's locals.             *)
(***************************************************************************)
\* line 169-170: the locals before the loop
ScanStart(bps, name) ==
    LET first == materials_list(bps[name])
    IN  [result    |-> first,
         idx       |-> 1,
         to_remove |-> <<>>,
         chain     |-> [i \in 1..Len(first) |-> {name}]]

\* the loop has a next entry
ScanMore(s) == s.idx <= Len(s.result)

\* lines 171-174 with the position kept when an entry is expanded
ScanBodyStay(bps, s) ==
    LET material == s.result[s.idx]
    IN  IF material \in DOMAIN bps
        THEN LET more == materials_list(bps[material])
             IN  [result    |-> s.result \o more,
                  idx       |-> s.idx,
                  to_remove |-> Append(s.to_remove, s.idx),
                  chain     |-> s.chain \o
                                [i \in 1..Len(more) |->
                                    s.chain[s.idx] \cup {material}]]
        ELSE [s EXCEPT !.idx = s.idx + 1]

\* lines 171-174: one iteration of the loop
ScanBody(bps, s) ==
    LET material == s.result[s.idx]
    IN  IF material \in DOMAIN bps
        THEN LET more == materials_list(bps[material])
             IN  [result    |-> s.result \o more,
                  idx       |-> s.idx + 1,
                  to_remove |-> Append(s.to_remove, s.idx),
                  chain     |-> s.chain \o
                                [i \in 1..Len(more) |->
                                    s.chain[s.idx] \cup {material}]]
        ELSE [s EXCEPT !.idx = s.idx + 1]

\* i in to_remove
InList(x, l) == \E j \in 1..Len(l) : l[j] = x

\* line 176 with the positions of to_remove taken one too high
ScanResultShifted(s) ==
    LET keep == {i \in 1..Len(s.result) : ~InList(i - 1, s.to_remove)}
        Nth(n) == CHOOSE i \in keep : Cardinality({j \in keep : j <= i}) = n
    IN  [n \in 1..Cardinality(keep) |-> s.result[Nth(n)]]

\* line 176: the entries whose position is not in to_remove
ScanResult(s) ==
    LET keep == {i \in 1..Len(s.result) : ~InList(i, s.to_remove)}
        Nth(n) == CHOOSE i \in keep : Cardinality({j \in keep : j <= i}) = n
    IN  [n \in 1..Cardinality(keep) |-> s.result[Nth(n)]]

\* the model follows a scan while its list holds at most MaxLen entries
ScanFollowed(s) == Len(s.result) <= MaxLen

\* find_materials run to its end: what it returns, or that the list outgrew
\* the model
RECURSIVE RunScan(_, _)
RunScan(bps, s) ==
    IF ~ScanMore(s) THEN [done |-> TRUE, list |-> ScanResult(s)]
    ELSE IF ~ScanFollowed(s) THEN [done |-> FALSE, list |-> <<>>]
    ELSE RunScan(bps, ScanBody(bps, s))

Locals == [result |-> result, idx |-> idx, to_remove |-> to_remove, chain |-> chain]

SetLocals(s) ==
    /\ result' = s.result
    /\ idx' = s.idx
    /\ to_remove' = s.to_remove
    /\ chain' = s.chain

NoLocals == [result |-> <<>>, idx |-> 0, to_remove |-> <<>>, chain |-> <<>>]

\* find_materials with the lookup defaulting to an empty blueprint
find_materials_default(name) ==
    /\ pc = "idle"
    /\ op' = "find_materials"
    /\ item_name' = name
    /\ pc' = "scan"
    /\ ret' = NoRet
    /\ SetLocals(IF name \in DOMAIN blueprints
                 THEN ScanStart(blueprints, name)
                 ELSE [NoLocals EXCEPT !.idx = 1])
    /\ keyword' = NoArg /\ a_list' = NoArg
    /\ UNCHANGED <<blueprints, warned, added>>

\* find_materials, line 169: the lookup raises KeyError for an unknown name,
\* otherwise the loop starts
find_materials(name) ==
    /\ pc = "idle"
    /\ op' = "find_materials"
    /\ item_name' = name
    /\ IF name \in DOMAIN blueprints
       THEN /\ pc' = "scan"
            /\ ret' = NoRet
            /\ SetLocals(ScanStart(blueprints, name))
       ELSE /\ pc' = "idle"
            /\ ret' = [kind |-> "KeyError", val |-> name]
            /\ SetLocals(NoLocals)
    /\ keyword' = NoArg /\ a_list' = NoArg
    /\ UNCHANGED <<blueprints, warned, added>>

FindMaterials == \E name \in Names : find_materials(name)

\* an iteration that drops the blueprint it expands from the collection
ScanStepConsume ==
    /\ pc = "scan"
    /\ ScanMore(Locals)
    /\ ScanFollowed(Locals)
    /\ SetLocals(ScanBody(blueprints, Locals))
    /\ blueprints' = [k \in DOMAIN blueprints \ {result[idx]} |-> blueprints[k]]
    /\ UNCHANGED <<op, pc, ret, warned, added, item_name, keyword, a_list>>

\* find_materials, lines 171-174: one iteration
ScanStep ==
    /\ pc = "scan"
    /\ ScanMore(Locals)
    /\ ScanFollowed(Locals)
    /\ SetLocals(ScanBody(blueprints, Locals))
    /\ UNCHANGED <<op, pc, ret, blueprints, warned, added, item_name, keyword, a_list>>

\* find_materials, line 176: the loop is over
ScanReturn ==
    /\ pc = "scan"
    /\ ~ScanMore(Locals)
    /\ pc' = "idle"
    /\ ret' = [kind |-> "list", val |-> ScanResult(Locals)]
    /\ SetLocals(NoLocals)
    /\ UNCHANGED <<op, blueprints, warned, added, item_name, keyword, a_list>>

(***************************************************************************)
(* pack_list and find_keyword                                              *)
(***************************************************************************)
\* list.count
RECURSIVE ListCount(_, _)
ListCount(l, k) ==
    IF l = <<>> THEN 0
    ELSE (IF Head(l) = k THEN 1 ELSE 0) + ListCount(Tail(l), k)

\* set( a_list )
ToSet(l) == {l[i] : i \in 1..Len(l)}

\* pack_list counting only the run of equal entries a key first occurs in
RECURSIVE RunLength(_, _)
RunLength(l, k) ==
    IF l = <<>> THEN 0
    ELSE IF Head(l) = k
         THEN 1 + (IF Len(l) > 1 /\ l[2] = k THEN RunLength(Tail(l), k) ELSE 0)
         ELSE RunLength(Tail(l), k)

pack_list_runs(l) == [k \in ToSet(l) |-> RunLength(l, k)]

pack_list(l) == [k \in ToSet(l) |-> ListCount(l, k)]

\* line 155 with the keys compared as they are spelled
blueprint_matches_exact(bps, kw) == {k \in DOMAIN bps : StrIn(Lower(kw), k)}

\* line 155: the keys that contain the keyword, both lowered
blueprint_matches(bps, kw) == {k \in DOMAIN bps : StrIn(Lower(kw), Lower(k))}

\* find_keyword: find_materials on every match, one after the other; the
\* call returns only if every one of them does
find_keyword(kw) ==
    LET matches == blueprint_matches(blueprints, kw)
        runs == [k \in matches |-> RunScan(blueprints, ScanStart(blueprints, k))]
    IN  /\ pc = "idle"
        /\ op' = "find_keyword"
        /\ keyword' = kw
        /\ IF \A k \in matches : runs[k].done
           THEN /\ pc' = "idle"
                /\ ret' = [kind |-> "dict",
                           val |-> [k \in matches |-> pack_list(runs[k].list)]]
           ELSE /\ pc' = "diverged"
                /\ ret' = NoRet
        /\ item_name' = NoArg /\ a_list' = NoArg
        /\ UNCHANGED <<blueprints, warned, added, result, idx, to_remove, chain>>

FindKeyword == \E kw \in Keywords : find_keyword(kw)

(***************************************************************************)
(* The program: an empty collection (no local DB, before the first link is *)
(* read), then any calls, one at a time                                    *)
(***************************************************************************)
Init ==
    /\ op = "__init__"
    /\ pc = "idle"
    /\ ret = NoRet
    /\ blueprints = NoBlueprints
    /\ warned = FALSE
    /\ added = NoBlueprints
    /\ item_name = NoArg
    /\ keyword = NoArg
    /\ result = <<>> /\ idx = 0 /\ to_remove = <<>> /\ chain = <<>>
    /\ a_list = NoArg

Next ==
    \/ AddBlueprint
    \/ Size
    \/ FindMaterials
    \/ ScanStep
    \/ ScanReturn
    \/ FindKeyword

Spec == Init /\ [][Next]_vars

\* the loop of find_materials, once entered, keeps running
FairSpec == Spec /\ WF_vars(ScanStep) /\ WF_vars(ScanReturn)

(***************************************************************************)
(* pack_list on its own: any list of names, packed and reordered           *)
(***************************************************************************)
InitPack ==
    /\ a_list \in SeqsUpTo(Names, MaxListLen)
    /\ op = "__init__"
    /\ pc = "idle"
    /\ ret = NoRet
    /\ blueprints = NoBlueprints
    /\ warned = FALSE
    /\ added = NoBlueprints
    /\ item_name = NoArg
    /\ keyword = NoArg
    /\ result = <<>> /\ idx = 0 /\ to_remove = <<>> /\ chain = <<>>

\* pack_list( a_list )
PackList ==
    /\ op' = "pack_list"
    /\ ret' = [kind |-> "dict", val |-> pack_list(a_list), arg |-> a_list]
    /\ UNCHANGED <<pc, blueprints, warned, added, item_name, keyword,
                   result, idx, to_remove, chain, a_list>>

\* the caller exchanges two entries of its list
Reorder ==
    /\ \E i, j \in 1..Len(a_list) :
          /\ i < j
          /\ a_list[i] # a_list[j]
          /\ a_list' = [a_list EXCEPT ![i] = a_list[j], ![j] = a_list[i]]
    /\ UNCHANGED <<op, pc, ret, blueprints, warned, added, item_name, keyword,
                   result, idx, to_remove, chain>>

NextPack ==
    \/ PackList
    \/ Reorder

SpecPack == InitPack /\ [][NextPack]_vars

(***************************************************************************)
(* Reference notions the properties are stated with                        *)
(***************************************************************************)
\* the ingredients of item k that are blueprints themselves
Intermediates(bps, k) == DictKeys(bps[k].materials) \cap DOMAIN bps

\* the blueprints reachable from the items of a set along ingredient edges
RECURSIVE Reach(_, _, _)
Reach(bps, frontier, seen) ==
    IF frontier \subseteq seen THEN seen
    ELSE Reach(bps,
               UNION {Intermediates(bps, k) : k \in frontier},
               seen \cup frontier)

Cyclic(bps, k) == k \in Reach(bps, Intermediates(bps, k), {})

Acyclic(bps) == \A k \in DOMAIN bps : ~Cyclic(bps, k)

\* the integer-weighted recursive count: units of terminal material m that
\* one unit of blueprint k needs (defined on acyclic collections)
RECURSIVE Need(_, _, _), NeedOf(_, _, _)
Need(bps, k, m) == NeedOf(bps, bps[k].materials, m)
NeedOf(bps, materials, m) ==
    IF materials = <<>> THEN 0
    ELSE LET mat == Head(materials)[1]
             qty == Head(materials)[2]
             each == IF mat \in DOMAIN bps THEN Need(bps, mat, m)
                     ELSE IF mat = m THEN 1 ELSE 0
         IN  qty * each + NeedOf(bps, Tail(materials), m)

Occurrences(l, x) == Cardinality({i \in 1..Len(l) : l[i] = x})

Terminals(bps) == Names \ DOMAIN bps

\* the quantity table of the terminal materials item k needs
NeedTable(bps, k) ==
    [m \in {t \in Terminals(bps) : Need(bps, k, t) > 0} |-> Need(bps, k, m)]

\* sub occurs in s at some offset, letter case ignored
OccursIgnoringCase(sub, s) ==
    \E off \in 0..(Len(s) - Len(sub)) :
        \A i \in 1..Len(sub) : LowerChar(s[off + i]) = LowerChar(sub[i])

RECURSIVE SumOver(_, _)
SumOver(f, S) ==
    IF S = {} THEN 0
    ELSE LET x == CHOOSE y \in S : TRUE IN f[x] + SumOver(f, S \ {x})

Returned == pc = "idle" /\ ret.kind = "list"

(***************************************************************************)
(* Properties                                                              *)
(***************************************************************************)
\* C1: when find_materials returns on an acyclic collection, every terminal
\* material occurs in the returned list exactly as often as the
\* integer-weighted recursive count says (products of quantities along each
\* ingredient path, summed over the paths).
C1_WeightedCounts ==
    (op = "find_materials" /\ Returned /\ Acyclic(blueprints))
        => \A m \in Terminals(blueprints) :
               Occurrences(ret.val, m) = Need(blueprints, item_name, m)

\* a resolution through three levels of blueprints, with a material reached
\* along more than one path, has returned
C1_Witness ==
    /\ op = "find_materials" /\ Returned /\ Acyclic(blueprints)
    /\ \E y \in Intermediates(blueprints, item_name) :
          \E z \in Intermediates(blueprints, y) :
             \E m \in Terminals(blueprints) :
                /\ m \in DictKeys(blueprints[item_name].materials)
                /\ m \in DictKeys(blueprints[y].materials)
                /\ m \in DictKeys(blueprints[z].materials)
                /\ Occurrences(ret.val, m) = 11

\* C2: whenever find_materials returns, no entry of the returned list is a
\* key of the collection.
C2_OnlyTerminals ==
    (op = "find_materials" /\ Returned)
        => \A i \in 1..Len(ret.val) : ret.val[i] \notin DOMAIN blueprints

\* a returned non-empty list whose item has an intermediate that has an
\* intermediate (an entry appended during the scan was expanded and removed)
C2_Witness ==
    /\ op = "find_materials" /\ Returned /\ Len(ret.val) > 0
    /\ \E y \in Intermediates(blueprints, item_name) :
          Intermediates(blueprints, y) # {}

\* C3: resolution never expands an entry whose item is already being
\* expanded on the entry's own chain: reaching such an entry ends the call
\* with a cyclic-recipe error instead of another expansion.
C3_CycleFailsFast ==
    \A j \in 1..Len(to_remove) :
        result[to_remove[j]] \notin chain[to_remove[j]]

\* C4: find_materials on a name that is not a key ends at once in a KeyError
\* for that name: it returns no list, starts no scan and leaves the
\* collection as it was.
C4_UnknownItem ==
    [][(pc = "idle" /\ op' = "find_materials" /\ item_name' \notin DOMAIN blueprints)
          => /\ pc' = "idle"
             /\ ret' = [kind |-> "KeyError", val |-> item_name']
             /\ blueprints' = blueprints]_vars

\* find_materials was called with an unknown name on a non-empty collection
C4_Witness ==
    /\ op = "find_materials"
    /\ item_name \notin DOMAIN blueprints
    /\ blueprints # NoBlueprints
    /\ ret.kind = "KeyError"

\* C5: the collection holds exactly the names ever added, each with the
\* blueprint most recently passed under it; size() is the number of distinct
\* names added; an add of a name already present only warns.
C5_LastWriteWins ==
    /\ DOMAIN blueprints = DOMAIN added
    /\ \A n \in DOMAIN added : blueprints[n] = added[n]
    /\ op = "size" => ret = [kind |-> "int", val |-> Cardinality(DOMAIN added)]
    /\ op = "add_blueprint" => (pc = "idle" /\ ret = NoRet)

\* size() was called after a name was added a second time
C5_Witness ==
    /\ op = "size"
    /\ warned
    /\ ret.val = 2

\* C6: on an acyclic collection find_keyword returns a table whose keys are
\* exactly the blueprint names in which the keyword occurs, letter case
\* ignored (so a keyword of the same letters in another case has the same
\* matches), each with the quantity table of its resolved materials.
C6_KeywordMatches ==
    (op = "find_keyword" /\ Acyclic(blueprints))
        => /\ pc = "idle" /\ ret.kind = "dict"
           /\ DOMAIN ret.val =
                {k \in DOMAIN blueprints : OccursIgnoringCase(keyword, k)}
           /\ \A kw \in Keywords :
                 Lower(kw) = Lower(keyword)
                     => blueprint_matches(blueprints, kw) = DOMAIN ret.val
           /\ \A k \in DOMAIN ret.val : ret.val[k] = NeedTable(blueprints, k)

\* a keyword with an upper-case letter matched two blueprints but not all,
\* one of them with nested ingredients
C6_Witness ==
    /\ op = "find_keyword" /\ Acyclic(blueprints) /\ ret.kind = "dict"
    /\ keyword # Lower(keyword)
    /\ Cardinality(DOMAIN ret.val) = 2
    /\ DOMAIN ret.val # DOMAIN blueprints
    /\ \E k \in DOMAIN ret.val : k # keyword /\ Intermediates(blueprints, k) # {}

\* C7: pack_list maps each distinct element of the list to its number of
\* occurrences and has no other keys; the counts sum to the length; the
\* table of one order of a list is the table of any other order.
C7_PackCounts ==
    op = "pack_list"
        => /\ DOMAIN ret.val = {a_list[i] : i \in 1..Len(a_list)}
           /\ \A k \in DOMAIN ret.val : ret.val[k] = Occurrences(a_list, k)
           /\ SumOver(ret.val, DOMAIN ret.val) = Len(a_list)

\* a list with a repeated name was packed and then reordered
C7_Witness ==
    /\ op = "pack_list"
    /\ ret.arg # a_list
    /\ \E k \in DOMAIN ret.val : ret.val[k] = 2

\* C8: no blueprint of the collection has its own name among its
\* ingredients.
C8_NoSelfLoop ==
    \A k \in DOMAIN blueprints : k \notin DictKeys(blueprints[k].materials)

\* C9: on an acyclic collection a started scan of find_materials ends: the
\* call returns its list.
C9_ScanTerminates ==
    (pc = "scan" /\ Acyclic(blueprints)) ~> (op = "find_materials" /\ Returned)

\* on an acyclic collection the scan reached the end of a list that had
\* grown three times while it was scanned
C9_Witness ==
    /\ pc = "scan" /\ Acyclic(blueprints)
    /\ Len(to_remove) >= 3
    /\ idx > Len(result)

\* C10: a step of find_materials, find_keyword or size leaves the collection
\* as it is, and a list find_materials returns is the one a second
\* resolution of the same item on the collection as it then is returns.
C10_CollectionUnchanged ==
    [][/\ op' \in {"find_materials", "find_keyword", "size"}
             => blueprints' = blueprints
       /\ (op' = "find_materials" /\ pc' = "idle" /\ ret'.kind = "list")
             => RunScan(blueprints', ScanStart(blueprints', item_name'))
                    = [done |-> TRUE, list |-> ret'.val]]_vars

\* find_materials returned after expanding an intermediate
C10_Witness ==
    /\ op = "find_materials" /\ Returned /\ Len(ret.val) > 0
    /\ Intermediates(blueprints, item_name) # {}

====
